---- MODULE Spec2Model ----
(***************************************************************************)
(* Trie node codec (util/src/trie/node.rs) and built-in contracts          *)
(* (ethcore/src/builtin.rs) of parity.                                     *)
(*                                                                         *)
(* Bytes are sequences over 0..255.  A Node is a record:                   *)
(*   [tag |-> "Empty"]                                                     *)
(*   [tag |-> "Leaf",      path |-> nibbles, value |-> bytes]              *)
(*   [tag |-> "Extension", path |-> nibbles, raw   |-> bytes]              *)
(*   [tag |-> "Branch",    nodes |-> 16 byte strings, value |-> option]    *)
(* An option is [some |-> BOOLEAN, v |-> bytes]; a panic of the decoder is *)
(* the pseudo node [tag |-> "Panic"].                                      *)
(***************************************************************************)
EXTENDS Integers, Sequences, FiniteSets, TLC

VARIABLES op,        \* the last operation that ran
          node,      \* the Node the last operation was given
          bytes,     \* the byte buffer the last operation was given or produced
          res,       \* the Node the last decode produced
          journal,   \* the Journal: a sequence of [hash, rlp] entries
          returned,  \* per encoded_and_added call, in order: [rlp, out], the node's
                     \* serialization and the bytes the call returned
          calls,     \* number of encoded_and_added calls of this commit cycle
          builtin,   \* the Option<Builtin> last constructed
          size,      \* the input size last given to Builtin::cost
          cost,      \* what that call came to: [panic, v]
          input,     \* the input last given to Builtin::execute
          output0,   \* the output buffer as the caller supplied it
          output,    \* the output buffer after execute
          recover,   \* what ec::recover comes to for that input
          inputAfter,\* the input buffer after execute or copy_to
          oob,       \* execute or copy_to indexed a buffer out of its bounds
          request,   \* what the last constructor call was given: a JSON document,
                     \* or [t |-> "Named", s |-> name, v |-> [base, word]]
          panicked   \* the last constructor call panicked

trieVars == <<node, bytes, res, journal, returned, calls>>
builtinVars == <<builtin, size, cost, input, output0, output, recover, inputAfter, oob,
                 request, panicked>>
vars == <<op, trieVars, builtinVars>>

(***************************************************************************)
(* Bounds of the model.                                                    *)
(***************************************************************************)
MaxPathLen == 2
MaxCalls == 2
\* the width of usize in bits, scaled down from 64
UsizeBits == 8

(***************************************************************************)
(* Byte helpers.                                                           *)
(***************************************************************************)
Rep(b, n) == [i \in 1..n |-> b]

RECURSIVE ToBE(_)
ToBE(n) == IF n = 0 THEN <<>> ELSE ToBE(n \div 256) \o <<n % 256>>

RECURSIVE FromBE(_)
FromBE(b) == IF b = <<>> THEN 0 ELSE FromBE(SubSeq(b, 1, Len(b) - 1)) * 256 + b[Len(b)]

Min(a, b) == IF a < b THEN a ELSE b

(***************************************************************************)
(* RLP, the wire encoding: a byte string is a length-tagged prefix         *)
(* followed by its bytes, a list is a length-tagged prefix followed by the *)
(* concatenation of its elements' encodings.                               *)
(***************************************************************************)
\* RlpStream::append(&[u8]): the encoding of one byte string
RlpData(d) ==
  IF Len(d) = 1 /\ d[1] < 128 THEN d
  ELSE IF Len(d) <= 55 THEN <<128 + Len(d)>> \o d
  ELSE <<183 + Len(ToBE(Len(d)))>> \o ToBE(Len(d)) \o d

\* the prefix of a list whose payload is n bytes long
RlpListHeader(n) ==
  IF n <= 55 THEN <<192 + n>>
  ELSE <<247 + Len(ToBE(n))>> \o ToBE(n)

\* RlpStream: `list` is the declared item count of the open list (-1: none),
\* `items` the number of items appended, `payload` the bytes appended
StreamNew == [list |-> -1, items |-> 0, payload |-> <<>>]
StreamAppendList(s, n) == [s EXCEPT !.list = n]
StreamAppend(s, d) == [s EXCEPT !.items = @ + 1, !.payload = @ \o RlpData(d)]
StreamAppendRaw(s, raw, n) == [s EXCEPT !.items = @ + n, !.payload = @ \o raw]
StreamAppendEmptyData(s) == [s EXCEPT !.items = @ + 1, !.payload = @ \o <<128>>]
StreamNewList(n) == StreamAppendList(StreamNew, n)
Out(s) == IF s.list < 0 THEN s.payload
          ELSE RlpListHeader(Len(s.payload)) \o s.payload

\* header length and payload length of the item that starts buffer b (b # <<>>)
PayloadInfo(b) ==
  LET b0 == b[1] IN
  IF b0 < 128 THEN [hdr |-> 0, len |-> 1]
  ELSE IF b0 < 184 THEN [hdr |-> 1, len |-> b0 - 128]
  ELSE IF b0 < 192 THEN
    [hdr |-> 1 + (b0 - 183),
     len |-> FromBE(SubSeq(b, 2, Min(Len(b), 1 + (b0 - 183))))]
  ELSE IF b0 < 248 THEN [hdr |-> 1, len |-> b0 - 192]
  ELSE
    [hdr |-> 1 + (b0 - 247),
     len |-> FromBE(SubSeq(b, 2, Min(Len(b), 1 + (b0 - 247))))]

ItemLen(b) == PayloadInfo(b).hdr + PayloadInfo(b).len

\* the items of a list payload, each as its raw encoding; parsing stops at
\* the first item that does not fit
RECURSIVE Items(_)
Items(p) ==
  IF p = <<>> \/ ItemLen(p) > Len(p) THEN <<>>
  ELSE <<SubSeq(p, 1, ItemLen(p))>> \o Items(SubSeq(p, ItemLen(p) + 1, Len(p)))

IsNull(b) == b = <<>>
IsData(b) == ~IsNull(b) /\ b[1] < 192
IsList(b) == ~IsNull(b) /\ b[1] >= 192
\* Rlp::data: the payload of the item
Data(b) == SubSeq(b, PayloadInfo(b).hdr + 1, Min(Len(b), ItemLen(b)))
\* the raw items of list b
ListItems(b) == Items(Data(b))
\* Rlp::at(i).as_raw(), i counted from 0
At(b, i) == ListItems(b)[i + 1]
\* Rlp::is_empty of an item: the empty string
IsEmpty(b) == b = <<128>>
\* Rlp::prototype
Prototype(b) ==
  IF IsData(b) THEN [kind |-> "Data", n |-> Len(Data(b))]
  ELSE IF IsList(b) THEN [kind |-> "List", n |-> Len(ListItems(b))]
  ELSE [kind |-> "Null", n |-> 0]

(***************************************************************************)
(* NibbleSlice and its hex-prefix form: the first byte carries the leaf    *)
(* flag (32) and the odd-length flag (16) in its high nibble and, when the *)
(* length is odd, the first nibble; the other bytes pack two nibbles each. *)
(***************************************************************************)
RECURSIVE PackNibbles(_)
PackNibbles(ns) ==
  IF ns = <<>> THEN <<>>
  ELSE <<ns[1] * 16 + ns[2]>> \o PackNibbles(SubSeq(ns, 3, Len(ns)))

RECURSIVE UnpackNibbles(_)
UnpackNibbles(b) ==
  IF b = <<>> THEN <<>>
  ELSE <<b[1] \div 16, b[1] % 16>> \o UnpackNibbles(Tail(b))

\* NibbleSlice::encoded(is_leaf)
SliceEncoded(ns, isLeaf) ==
  LET flag == IF isLeaf THEN 32 ELSE 0 IN
  IF Len(ns) % 2 = 1
  THEN <<flag + 16 + ns[1]>> \o PackNibbles(Tail(ns))
  ELSE <<flag>> \o PackNibbles(ns)

\* NibbleSlice::from_encoded(data), data # <<>>: the slice and the leaf flag
FromEncoded(d) ==
  LET odd == (d[1] \div 16) % 2 = 1
      all == UnpackNibbles(d)
  IN [slice |-> SubSeq(all, IF odd THEN 2 ELSE 3, Len(all)),
      leaf |-> (d[1] \div 32) % 2 = 1]

(***************************************************************************)
(* Node                                                                    *)
(***************************************************************************)
None == [some |-> FALSE, v |-> <<>>]
Some(v) == [some |-> TRUE, v |-> v]

Empty == [tag |-> "Empty"]
Leaf(p, v) == [tag |-> "Leaf", path |-> p, value |-> v]
Extension(p, r) == [tag |-> "Extension", path |-> p, raw |-> r]
Branch(ns, v) == [tag |-> "Branch", nodes |-> ns, value |-> v]
Panic == [tag |-> "Panic"]

\* DecodedChildren with the index off by one: child i read from element i + 1
DecodedChildrenShifted(b) == [i \in 1..16 |-> At(b, i)]

\* the loop `for i in 0..16 { nodes[i] = r.at(i).as_raw(); }`
DecodedChildren(b) == [i \in 1..16 |-> At(b, i - 1)]

\* Node::decoded
decoded(node_rlp) ==
  LET proto == Prototype(node_rlp) IN
  IF proto = [kind |-> "List", n |-> 2] THEN
    LET fe == FromEncoded(Data(At(node_rlp, 0))) IN
    IF fe.leaf THEN Leaf(fe.slice, Data(At(node_rlp, 1)))
    ELSE Extension(fe.slice, At(node_rlp, 1))
  ELSE IF proto = [kind |-> "List", n |-> 17] THEN
    Branch(DecodedChildren(node_rlp),
           IF IsEmpty(At(node_rlp, 16)) THEN None
           ELSE Some(Data(At(node_rlp, 16))))
  ELSE IF proto = [kind |-> "Data", n |-> 0] THEN Empty
  ELSE Panic

\* the loop `for i in 0..16 { stream.append_raw(nodes[i], 1); }`
RECURSIVE AppendChildren(_, _, _)
AppendChildren(s, ns, i) ==
  IF i > 16 THEN s ELSE AppendChildren(StreamAppendRaw(s, ns[i], 1), ns, i + 1)

\* `match *value { Some(n) => stream.append(&n), None => stream.append_empty_data() }`
AppendValue(s, v) == IF v.some THEN StreamAppend(s, v.v) ELSE StreamAppendEmptyData(s)

\* encoded with the Extension arm writing the leaf flag
encodedLeafFlag(n) ==
  IF n.tag = "Leaf" THEN
    Out(StreamAppend(StreamAppend(StreamNewList(2), SliceEncoded(n.path, TRUE)), n.value))
  ELSE IF n.tag = "Extension" THEN
    Out(StreamAppendRaw(StreamAppend(StreamNewList(2), SliceEncoded(n.path, TRUE)), n.raw, 1))
  ELSE IF n.tag = "Branch" THEN
    Out(AppendValue(AppendChildren(StreamNewList(17), n.nodes, 1), n.value))
  ELSE Out(StreamAppendEmptyData(StreamNew))

\* Node::encoded
encoded(n) ==
  IF n.tag = "Leaf" THEN
    Out(StreamAppend(StreamAppend(StreamNewList(2), SliceEncoded(n.path, TRUE)), n.value))
  ELSE IF n.tag = "Extension" THEN
    Out(StreamAppendRaw(StreamAppend(StreamNewList(2), SliceEncoded(n.path, FALSE)), n.raw, 1))
  ELSE IF n.tag = "Branch" THEN
    Out(AppendValue(AppendChildren(StreamNewList(17), n.nodes, 1), n.value))
  ELSE Out(StreamAppendEmptyData(StreamNew))

(***************************************************************************)
(* The content hash: a deterministic 32-byte digest of a byte string.  It  *)
(* stands for sha3: the length, two checksums and the leading bytes.       *)
(***************************************************************************)
RECURSIVE ByteSum(_)
ByteSum(b) == IF b = <<>> THEN 0 ELSE b[1] + ByteSum(Tail(b))

RECURSIVE WeightedSum(_, _)
WeightedSum(b, i) ==
  IF i > Len(b) THEN 0 ELSE i * b[i] + WeightedSum(b, i + 1)

Sha3(b) ==
  <<Len(b) % 256, ByteSum(b) % 256, WeightedSum(b, 1) % 256>>
    \o [i \in 1..29 |-> IF i <= Len(b) THEN b[i] ELSE 0]

(***************************************************************************)
(* Journal: the pending (hash -> encoding) entries of one commit cycle.    *)
(***************************************************************************)
HasHash(j, h) == \E i \in 1..Len(j) : j[i].hash = h

\* new_node recording every call, recorded already or not
NewNodeAlwaysPush(j, rlp, out) ==
  [journal |-> Append(j, [hash |-> Sha3(rlp), rlp |-> rlp]),
   stream |-> StreamAppendRaw(out, Sha3(rlp), 1)]

\* Journal::new_node(rlp, out): records rlp under its hash unless the hash is
\* already recorded, and writes the 32-byte hash to `out`
NewNode(j, rlp, out) ==
  LET h == Sha3(rlp) IN
  [journal |-> IF HasHash(j, h) THEN j ELSE Append(j, [hash |-> h, rlp |-> rlp]),
   stream |-> StreamAppendRaw(out, h, 1)]

\* the longest encoding that is returned inline (`0 ... 31 => node`)
InlineMax == 31

\* EncodedStream with the Extension arm writing the leaf flag
EncodedStreamLeafFlag(n) ==
  IF n.tag = "Leaf" THEN
    StreamAppend(StreamAppend(StreamAppendList(StreamNew, 2),
                              SliceEncoded(n.path, TRUE)), n.value)
  ELSE IF n.tag = "Extension" THEN
    StreamAppendRaw(StreamAppend(StreamAppendList(StreamNew, 2),
                                 SliceEncoded(n.path, TRUE)), n.raw, 1)
  ELSE IF n.tag = "Branch" THEN
    AppendValue(AppendChildren(StreamAppendList(StreamNew, 17), n.nodes, 1), n.value)
  ELSE StreamAppendEmptyData(StreamNew)

\* the first half of Node::encoded_and_added (lines 85-110): the node
\* written to a fresh stream
EncodedStream(n) ==
  IF n.tag = "Leaf" THEN
    StreamAppend(StreamAppend(StreamAppendList(StreamNew, 2),
                              SliceEncoded(n.path, TRUE)), n.value)
  ELSE IF n.tag = "Extension" THEN
    StreamAppendRaw(StreamAppend(StreamAppendList(StreamNew, 2),
                                 SliceEncoded(n.path, FALSE)), n.raw, 1)
  ELSE IF n.tag = "Branch" THEN
    AppendValue(AppendChildren(StreamAppendList(StreamNew, 17), n.nodes, 1), n.value)
  ELSE StreamAppendEmptyData(StreamNew)

\* encoded_and_added with the inline arm matching two lengths too many
encoded_and_addedWideInline(n, j) ==
  LET nd == Out(EncodedStream(n)) IN
  IF Len(nd) <= InlineMax + 2 THEN [out |-> nd, journal |-> j, node |-> nd]
  ELSE LET nn == NewNode(j, nd, StreamNew) IN
       [out |-> Out(nn.stream), journal |-> nn.journal, node |-> nd]

\* encoded_and_added with the journal's update lost
encoded_and_addedNoRecord(n, j) ==
  LET nd == Out(EncodedStream(n)) IN
  IF Len(nd) <= InlineMax THEN [out |-> nd, journal |-> j, node |-> nd]
  ELSE LET nn == NewNode(j, nd, StreamNew) IN
       [out |-> Out(nn.stream), journal |-> j, node |-> nd]

\* encoded_and_added handing every serialization to the journal
encoded_and_addedAlwaysRecord(n, j) ==
  LET nd == Out(EncodedStream(n))
      nn == NewNode(j, nd, StreamNew)
  IN IF Len(nd) <= InlineMax THEN [out |-> nd, journal |-> nn.journal, node |-> nd]
     ELSE [out |-> Out(nn.stream), journal |-> nn.journal, node |-> nd]

\* Node::encoded_and_added: `out` the bytes returned, `journal` the journal
\* afterwards, `node` the local of that name (the serialization)
encoded_and_added(n, j) ==
  LET nd == Out(EncodedStream(n)) IN
  IF Len(nd) <= InlineMax THEN [out |-> nd, journal |-> j, node |-> nd]
  ELSE LET nn == NewNode(j, nd, StreamNew) IN
       [out |-> Out(nn.stream), journal |-> nn.journal, node |-> nd]

(***************************************************************************)
(* Built-in contracts (ethcore/src/builtin.rs).  A Builtin is the name of  *)
(* its executor and the two numbers its cost closure captured.             *)
(***************************************************************************)
NoBuiltin == [some |-> FALSE, name |-> "", base_cost |-> 0, word_cost |-> 0]

BuiltinNames == {"identity", "ecrecover", "sha256", "ripemd160"}

\* new_builtin_exec(name).is_some()
HasBuiltinExec(name) == name \in BuiltinNames

\* Builtin::from_named_linear
from_named_linear(name, base_cost, word_cost) ==
  IF HasBuiltinExec(name)
  THEN [some |-> TRUE, name |-> name, base_cost |-> base_cost, word_cost |-> word_cost]
  ELSE NoBuiltin

UsizeRange == 2 ^ UsizeBits
UsizeMax == UsizeRange - 1

\* `x as usize` of a u64
AsUsize(x) == x % UsizeRange

\* a JSON value: t is "String", "U64", "I64", "Object" or "Null"; s is the
\* text of a string, n the number of an integer, v the entries of an object
NoEntries == [k \in {} |-> 0]
JString(x) == [t |-> "String", s |-> x, n |-> 0, v |-> NoEntries]
JU64(x) == [t |-> "U64", s |-> "", n |-> x, v |-> NoEntries]
JI64(x) == [t |-> "I64", s |-> "", n |-> x, v |-> NoEntries]
JNull == [t |-> "Null", s |-> "", n |-> 0, v |-> NoEntries]
JObject(fields) == [t |-> "Object", s |-> "", n |-> 0, v |-> fields]
JLinear(base, word) == JObject([base |-> JU64(base), word |-> JU64(word)])
\* the document { "name": name, "linear": {"base": base, "word": word} }
JsonOf(name, base, word) ==
  JObject([name |-> JString(name), linear |-> JLinear(base, word)])

\* Json::find(key): whether json is an object that holds key
JsonHas(json, key) == json.t = "Object" /\ key \in DOMAIN json.v

\* Builtin::from_json (lines 51-63): `b` the Option returned, `panic` when
\* json["name"], json["linear"], o["word"] or o["base"] indexes an entry
\* that is not there (Index for Json unwraps find; Index for BTreeMap panics)
from_jsonRun(json) ==
  IF ~JsonHas(json, "name") THEN [panic |-> TRUE, b |-> NoBuiltin]
  ELSE IF json.v["name"].t # "String" THEN [panic |-> FALSE, b |-> NoBuiltin]
  ELSE IF ~JsonHas(json, "linear") THEN [panic |-> TRUE, b |-> NoBuiltin]
  ELSE IF json.v["linear"].t # "Object" THEN [panic |-> FALSE, b |-> NoBuiltin]
  ELSE LET o == json.v["linear"].v IN
    IF "word" \notin DOMAIN o THEN [panic |-> TRUE, b |-> NoBuiltin]
    ELSE IF o["word"].t # "U64" THEN [panic |-> FALSE, b |-> NoBuiltin]
    ELSE IF "base" \notin DOMAIN o THEN [panic |-> TRUE, b |-> NoBuiltin]
    ELSE IF o["base"].t # "U64" THEN [panic |-> FALSE, b |-> NoBuiltin]
    ELSE [panic |-> FALSE,
          b |-> from_named_linear(json.v["name"].s, AsUsize(o["base"].n),
                                  AsUsize(o["word"].n))]

\* Builtin::from_json: the Option returned
from_json(json) == from_jsonRun(json).b

\* the cost closure of from_named_linear: every outcome of
\* U256::from(base_cost) + U256::from(word_cost) * U256::from((s + 31) / 32).
\* `s + 31` is a usize addition: on overflow a build with overflow checks
\* panics and a build without them wraps
CostOutcomes(b, s) ==
  IF s + 31 <= UsizeMax
  THEN {[panic |-> FALSE, v |-> b.base_cost + b.word_cost * ((s + 31) \div 32)]}
  ELSE {[panic |-> TRUE, v |-> 0],
        [panic |-> FALSE,
         v |-> b.base_cost + b.word_cost * (((s + 31) % UsizeRange) \div 32)]}

\* the loop `for i in 0..n { dest[i] = src[i]; }` from index i on: the two
\* buffers afterwards; an index outside either buffer panics (oob) and ends
\* the loop
RECURSIVE CopyLoop(_, _, _, _)
CopyLoop(src, dest, i, n) ==
  IF i >= n THEN [src |-> src, dest |-> dest, oob |-> FALSE]
  ELSE IF i >= Len(src) \/ i >= Len(dest) THEN [src |-> src, dest |-> dest, oob |-> TRUE]
  ELSE CopyLoop(src, [dest EXCEPT ![i + 1] = src[i + 1]], i + 1, n)

\* copy_to(src, dest) (lines 68-73): the buffers afterwards
copy_toRun(src, dest) == CopyLoop(src, dest, 0, Min(Len(src), Len(dest)))

\* copy_to(src, dest): dest afterwards
copy_to(src, dest) == copy_toRun(src, dest).dest

\* H256::from(&U256::from(n)) for n < 256
Word(n) == Rep(0, 31) \o <<n>>

\* Populatable::copy_raw into the 128 zeroed bytes of InType
CopyRaw(in) == [i \in 1..128 |-> IF i <= Len(in) THEN in[i] ELSE 0]

\* a < b for byte strings of one length, as big-endian numbers
RECURSIVE BytesLess(_, _)
BytesLess(a, b) ==
  IF a = <<>> THEN FALSE
  ELSE IF a[1] # b[1] THEN a[1] < b[1]
  ELSE BytesLess(Tail(a), Tail(b))

\* the order of the secp256k1 group
CurveOrder ==
  <<255, 255, 255, 255, 255, 255, 255, 255, 255, 255, 255, 255, 255, 255, 255, 254,
    186, 174, 220, 230, 175, 72, 160, 59, 191, 210, 94, 140, 208, 54, 65, 65>>

\* ec::is_valid of Signature::from_rsv(r, s, v)
IsValidSignature(r, s, v) ==
  /\ v <= 1
  /\ BytesLess(Rep(0, 32), r) /\ BytesLess(r, CurveOrder)
  /\ BytesLess(Rep(0, 32), s) /\ BytesLess(s, CurveOrder)

\* what ec::recover can come to: an error or a 64-byte public key
RecoveredKey == Rep(9, 64)
RecoverOutcomes == {[ok |-> FALSE, key |-> <<>>], [ok |-> TRUE, key |-> RecoveredKey]}

\* the loop of lines 101-103: 12 zero bytes and bytes 12..31 of r into the
\* first min(32, output.len()) bytes
WriteAddress(r, out) ==
  [i \in 1..Len(out) |->
     IF i <= Min(32, Len(out)) THEN (IF i <= 12 THEN 0 ELSE r[i]) ELSE out[i]]

\* the input passes the tests of lines 95 and 97
EcrecoverChecksPass(in) ==
  LET it == CopyRaw(in)
      v == SubSeq(it, 33, 64)
      r == SubSeq(it, 65, 96)
      s == SubSeq(it, 97, 128)
  IN /\ (v = Word(27) \/ v = Word(28))
     /\ IsValidSignature(r, s, v[32] - 27)

\* the ecrecover executor with the result region zeroed when the signature
\* is rejected
ecrecoverZeroOnFailure(in, out, rec) ==
  IF EcrecoverChecksPass(in) /\ rec.ok
  THEN WriteAddress(Sha3(rec.key), out)
  ELSE WriteAddress(Rep(0, 32), out)

\* the ecrecover executor taking a failed recovery for a key
ecrecoverIgnoresRecoverError(in, out, rec) ==
  IF EcrecoverChecksPass(in) THEN WriteAddress(Sha3(rec.key), out) ELSE out

\* the "ecrecover" executor (lines 84-107): output afterwards; rec is what
\* ec::recover comes to when it is called
ecrecover(in, out, rec) ==
  IF EcrecoverChecksPass(in)
  THEN IF rec.ok THEN WriteAddress(Sha3(rec.key), out) ELSE out
  ELSE out

\* stand-ins for the digests of rust-crypto: 32 and 20 bytes of the input
Sha256(in) == [i \in 1..32 |-> (Sha3(in)[i] + 101) % 256]
Ripemd160(in) == [i \in 1..20 |-> (Sha3(in)[i] + 53) % 256]

\* the "sha256" executor (lines 108-118)
sha256(in, out) ==
  IF Len(out) >= 32
  THEN Sha256(in) \o SubSeq(out, 33, Len(out))
  ELSE copy_to(Sha256(in), out)

\* the ripemd160 executor with the digest at the front of the result word
ripemd160DigestFirst(in, out) == copy_to(Ripemd160(in) \o Rep(0, 12), out)

\* the "ripemd160" executor (lines 119-125)
ripemd160(in, out) == copy_to(Rep(0, 12) \o Ripemd160(in), out)

\* the identity executor with the loop running over all of output
identityRunWholeOutput(in, out) == CopyLoop(in, out, 0, Len(out))

\* the "identity" executor (lines 79-83): the buffers afterwards
identityRun(in, out) == CopyLoop(in, out, 0, Min(Len(in), Len(out)))

\* the "identity" executor: output afterwards
identity(in, out) == identityRun(in, out).dest

\* Builtin::execute
execute(b, in, out, rec) ==
  IF b.name = "identity" THEN identity(in, out)
  ELSE IF b.name = "ecrecover" THEN ecrecover(in, out, rec)
  ELSE IF b.name = "sha256" THEN sha256(in, out)
  ELSE ripemd160(in, out)

(***************************************************************************)
(* The inputs of the model.                                                *)
(***************************************************************************)
Nibbles == {1, 15}

RECURSIVE SeqsUpTo(_, _)
SeqsUpTo(S, n) ==
  IF n = 0 THEN {<<>>}
  ELSE LET shorter == SeqsUpTo(S, n - 1) IN
       shorter \cup {Append(s, x) : s \in {t \in shorter : Len(t) = n - 1}, x \in S}

Paths == SeqsUpTo(Nibbles, MaxPathLen)

Values == {<<>>, <<5>>, <<200>>, <<97, 98, 99>>,
           Rep(7, 26), Rep(7, 27), Rep(7, 28), Rep(7, 29), Rep(7, 56)}

\* child references that are one complete item: no child, an inline leaf,
\* the hash of a stored node as a 32-byte string item
EmptyRef == <<128>>
InlineRef == encoded(Leaf(<<1>>, <<5>>))
HashItemRef == RlpData(Sha3(Rep(7, 40)))
GoodRefs == {EmptyRef, InlineRef, HashItemRef}
\* child references that are not one complete item: nothing at all, two
\* items, a bare 32-byte hash
BadRefs == {<<>>, <<1, 2>>, Sha3(Rep(7, 40))}
Refs == GoodRefs \cup BadRefs

BranchSlots == {1, 8, 16}
ValueOpts == {None, Some(<<>>), Some(<<5>>), Some(Rep(7, 29))}

ChildrenAt(p, a, q, b) ==
  [i \in 1..16 |-> IF i = p THEN a ELSE IF i = q THEN b ELSE EmptyRef]

BranchChildren ==
  {ChildrenAt(p, a, q, b) : p \in BranchSlots, q \in BranchSlots, a \in Refs, b \in Refs}
    \cup {[i \in 1..16 |-> r] : r \in GoodRefs}

Nodes ==
  {Empty}
    \cup {Leaf(p, v) : p \in Paths, v \in Values}
    \cup {Extension(p, r) : p \in Paths, r \in Refs}
    \cup {Branch(c, v) : c \in BranchChildren, v \in ValueOpts}

\* buffers that are no node encoding: nothing, a one-byte string, a longer
\* string, the empty list, lists of one and of three items
MalformedBuffers ==
  {<<>>, <<5>>, <<130, 1, 2>>, <<192>>, <<193, 5>>, <<195, 1, 2, 3>>}

Buffers == {encoded(n) : n \in Nodes} \cup MalformedBuffers

(***************************************************************************)
(* Spec: the codec.                                                        *)
(***************************************************************************)
Init ==
  /\ op = "init"
  /\ node = Empty
  /\ bytes = <<>>
  /\ res = Empty
  /\ journal = <<>>
  /\ returned = <<>>
  /\ calls = 0
  /\ builtin = NoBuiltin
  /\ size = 0
  /\ cost = [panic |-> FALSE, v |-> 0]
  /\ input = <<>>
  /\ output0 = <<>>
  /\ output = <<>>
  /\ recover = [ok |-> FALSE, key |-> <<>>]
  /\ inputAfter = <<>>
  /\ oob = FALSE
  /\ request = JNull
  /\ panicked = FALSE

\* n.encoded()
Encode(n) ==
  /\ op = "init"
  /\ op' = "encoded"
  /\ node' = n
  /\ bytes' = encoded(n)
  /\ res' = Empty
  /\ UNCHANGED <<journal, returned, calls, builtinVars>>

\* Node::decoded(n.encoded()) of the node just encoded
DecodeEncoded ==
  /\ op = "encoded"
  /\ op' = "roundtrip"
  /\ res' = decoded(bytes)
  /\ UNCHANGED <<node, bytes, journal, returned, calls, builtinVars>>

\* Node::decoded(b) of a buffer from anywhere
Decode(b) ==
  /\ op = "init"
  /\ op' = "decoded"
  /\ node' = Empty
  /\ bytes' = b
  /\ res' = decoded(b)
  /\ UNCHANGED <<journal, returned, calls, builtinVars>>

Next ==
  \/ \E n \in Nodes : Encode(n)
  \/ DecodeEncoded
  \/ \E b \in Buffers : Decode(b)

Spec == Init /\ [][Next]_vars

(***************************************************************************)
(* SpecJournal: encoded_and_added calls on one journal in a commit cycle.  *)
(***************************************************************************)
JournalNodes ==
  {Empty}
    \cup {Leaf(p, v) : p \in {<<>>, <<15>>}, v \in Values \cup {Rep(7, 30)}}
    \cup {Extension(<<1>>, r) : r \in GoodRefs}
    \cup {Branch(ChildrenAt(1, a, 16, b), v) :
            a \in {EmptyRef, InlineRef}, b \in {EmptyRef, HashItemRef},
            v \in {None, Some(<<>>), Some(<<5>>)}}

\* n.encoded_and_added(&mut journal)
EncodedAndAdded(n) ==
  /\ calls < MaxCalls
  /\ LET r == encoded_and_added(n, journal) IN
     /\ bytes' = r.out
     /\ journal' = r.journal
     /\ returned' = Append(returned, [rlp |-> r.node, out |-> r.out])
  /\ op' = "encoded_and_added"
  /\ node' = n
  /\ res' = Empty
  /\ calls' = calls + 1
  /\ UNCHANGED builtinVars

NextJournal == \E n \in JournalNodes : EncodedAndAdded(n)

SpecJournal == Init /\ [][NextJournal]_vars

(***************************************************************************)
(* SpecBuiltin: a builtin is constructed, then asked its cost or executed. *)
(***************************************************************************)
Names == BuiltinNames \cup {"blake2"}
BaseCosts == {0, 10}
WordCosts == {0, 20}
Sizes == 0..UsizeMax

MessageHash == Rep(71, 32)
GoodScalar == Rep(0, 16) \o Rep(101, 16)
VWords == {Word(26), Word(27), Word(28), Word(29), <<1>> \o Rep(0, 30) \o <<27>>}
Scalars == {Word(0), Word(27), Rep(255, 32), GoodScalar}
EcInputs ==
  {MessageHash \o v \o r \o s : v \in VWords, r \in Scalars, s \in Scalars}
    \cup {<<>>, MessageHash \o Word(27)}
PlainInputs == {<<>>, <<0, 1, 2, 3>>, [i \in 1..40 |-> i]}
InputsOf(b) == IF b.name = "ecrecover" THEN EcInputs ELSE PlainInputs
Outputs ==
  {Rep(255, n) : n \in {0, 2, 4, 8, 31, 32, 34}} \cup {[i \in 1..34 |-> 200 + i]}

\* JSON documents: of the documented form, with an entry of another type,
\* with an entry missing, and not an object at all
NameValues == {JString(n) : n \in Names} \cup {JU64(7), JNull}
BaseValues == {JU64(b) : b \in BaseCosts} \cup {JString("10"), JI64(-1)}
WordValues == {JU64(w) : w \in WordCosts} \cup {JString("20"), JI64(-1)}
LinearValues ==
  {JObject([base |-> b, word |-> w]) : b \in BaseValues, w \in WordValues}
    \cup {JObject([base |-> b]) : b \in BaseValues}
    \cup {JObject([word |-> w]) : w \in WordValues}
    \cup {JU64(5), JNull}
JsonDocs ==
  {JObject([name |-> n, linear |-> l]) : n \in NameValues, l \in LinearValues}
    \cup {JObject([name |-> n]) : n \in NameValues}
    \cup {JObject([linear |-> l]) : l \in LinearValues}
    \cup {JNull}

\* Builtin::from_named_linear(name, base_cost, word_cost)
FromNamedLinear(name, base_cost, word_cost) ==
  /\ op = "init"
  /\ op' = "from_named_linear"
  /\ builtin' = from_named_linear(name, base_cost, word_cost)
  /\ request' = [t |-> "Named", s |-> name, n |-> 0,
                 v |-> [base |-> JU64(base_cost), word |-> JU64(word_cost)]]
  /\ panicked' = FALSE
  /\ UNCHANGED <<trieVars, size, cost, input, output0, output, recover, inputAfter, oob>>

\* Builtin::from_json(&json)
FromJson(json) ==
  /\ op = "init"
  /\ op' = "from_json"
  /\ builtin' = from_json(json)
  /\ request' = json
  /\ panicked' = from_jsonRun(json).panic
  /\ UNCHANGED <<trieVars, size, cost, input, output0, output, recover, inputAfter, oob>>

\* b.cost(s)
Cost(s) ==
  /\ op \in {"from_named_linear", "from_json"}
  /\ builtin.some
  /\ op' = "cost"
  /\ size' = s
  /\ cost' \in CostOutcomes(builtin, s)
  /\ UNCHANGED <<trieVars, builtin, input, output0, output, recover, inputAfter, oob,
               request, panicked>>

\* b.execute(in, &mut out)
Execute(in, out, rec) ==
  /\ op \in {"from_named_linear", "from_json"}
  /\ builtin.some
  /\ op' = "execute"
  /\ input' = in
  /\ output0' = out
  /\ output' = execute(builtin, in, out, rec)
  /\ recover' = IF builtin.name = "ecrecover" THEN rec ELSE [ok |-> FALSE, key |-> <<>>]
  /\ inputAfter' = IF builtin.name = "identity" THEN identityRun(in, out).src ELSE in
  /\ oob' = IF builtin.name = "identity" THEN identityRun(in, out).oob ELSE FALSE
  /\ UNCHANGED <<trieVars, builtin, size, cost, request, panicked>>

\* copy_to(src, dest)
CopyTo(src, dest) ==
  /\ op = "init"
  /\ op' = "copy_to"
  /\ input' = src
  /\ output0' = dest
  /\ output' = copy_toRun(src, dest).dest
  /\ inputAfter' = copy_toRun(src, dest).src
  /\ oob' = copy_toRun(src, dest).oob
  /\ UNCHANGED <<trieVars, builtin, size, cost, recover, request, panicked>>

NextBuiltin ==
  \/ \E name \in Names, b \in BaseCosts, w \in WordCosts : FromNamedLinear(name, b, w)
  \/ \E name \in Names, b \in BaseCosts, w \in WordCosts : FromJson(JsonOf(name, b, w))
  \/ \E json \in JsonDocs : FromJson(json)
  \/ \E s \in Sizes : Cost(s)
  \/ \E in \in InputsOf(builtin), out \in Outputs, rec \in RecoverOutcomes :
       Execute(in, out, rec)
  \/ \E src \in PlainInputs \cup {Rep(0, 32)}, dest \in Outputs : CopyTo(src, dest)

SpecBuiltin == Init /\ [][NextBuiltin]_vars

(***************************************************************************)
(* Claims about the codec, checked under Spec.                             *)
(***************************************************************************)
\* a byte string that is exactly one complete item
IsOneItem(b) == b # <<>> /\ ItemLen(b) = Len(b)

\* a node whose child references are one item each and whose branch value,
\* when present, is not empty
WellFormed(n) ==
  /\ n.tag = "Extension" => IsOneItem(n.raw)
  /\ n.tag = "Branch" =>
       /\ \A i \in 1..16 : IsOneItem(n.nodes[i])
       /\ n.value.some => n.value.v # <<>>

\* C1 as stated: decoded(n.encoded()) = n for every Node n, a present value
\* of zero length included
C1_RoundTripEveryNode == op = "roundtrip" => res = node

\* C1 as amended: decoded(n.encoded()) = n for every Node n whose child
\* references are each exactly one complete item and whose Branch value,
\* when present, is not of zero length
C1_RoundTripWellFormed == (op = "roundtrip" /\ WellFormed(node)) => res = node

C1_Witness ==
  /\ op = "roundtrip"
  /\ node.tag = "Branch"
  /\ WellFormed(node)
  /\ node.value.some
  /\ \E i \in 1..16 : node.nodes[i] # EmptyRef
  /\ \E i \in 1..16 : node.nodes[i] = EmptyRef
  /\ res = node

\* the shapes Node::decoded recognises
RecognizedShape(b) ==
  \/ Prototype(b) = [kind |-> "Data", n |-> 0]
  \/ Prototype(b) = [kind |-> "List", n |-> 2]
  \/ Prototype(b) = [kind |-> "List", n |-> 17]

\* C4: decoding a buffer of any other shape yields a CorruptData error
\* as a value, neither a panic nor Empty
C4_CorruptDataAsValue ==
  (op = "decoded" /\ ~RecognizedShape(bytes)) => res.tag = "CorruptData"

\* C5: decoded dispatches on the shape alone: the empty string gives Empty;
\* a 2-element list gives Leaf(path, data of element 1) when element 0 has
\* the leaf flag and Extension(path, element 1 raw) when not; a 17-element
\* list gives Branch with child i the raw element i and value None exactly
\* when element 16 is the empty string, Some(its data) otherwise
C5_DecodedByShape ==
  (op = "decoded") =>
    LET items == ListItems(bytes) IN
    /\ bytes = <<128>> => res = Empty
    /\ (IsList(bytes) /\ Len(items) = 2) =>
         LET hp == Data(items[1])
             isLeaf == (hp[1] \div 32) % 2 = 1
         IN /\ res.tag = (IF isLeaf THEN "Leaf" ELSE "Extension")
            /\ SliceEncoded(res.path, isLeaf) = hp
            /\ isLeaf => res.value = Data(items[2])
            /\ ~isLeaf => res.raw = items[2]
    /\ (IsList(bytes) /\ Len(items) = 17) =>
         /\ res.tag = "Branch"
         /\ \A i \in 0..15 : res.nodes[i + 1] = items[i + 1]
         /\ res.value = None <=> items[17] = <<128>>
         /\ items[17] # <<128>> => res.value = Some(Data(items[17]))

C5_Witness ==
  /\ op = "decoded"
  /\ res.tag = "Branch"
  /\ res.value.some
  /\ res.nodes[1] # res.nodes[2]
  /\ C5_DecodedByShape

(***************************************************************************)
(* Claims about encoded_and_added, checked under SpecJournal.              *)
(***************************************************************************)
\* the calls that returned a hash reference in place of the serialization
HashedCalls == {i \in 1..Len(returned) : returned[i].out # returned[i].rlp}

C6_NoDanglingReference ==
  \A i \in HashedCalls :
    \E k \in 1..Len(journal) :
      journal[k] = [hash |-> returned[i].out, rlp |-> returned[i].rlp]

C6_Witness ==
  /\ Cardinality(HashedCalls) = 2
  /\ Len(journal) = 2
  /\ C6_NoDanglingReference

\* C7: recording the same content twice yields the same hash both times
\* and exactly one journal entry for that content
C7_RecordIdempotent ==
  \A i \in HashedCalls :
    /\ \A k \in HashedCalls :
         returned[i].rlp = returned[k].rlp => returned[i].out = returned[k].out
    /\ Cardinality({k \in 1..Len(journal) : journal[k].rlp = returned[i].rlp}) = 1

C7_Witness ==
  /\ \E i \in HashedCalls : \E k \in HashedCalls :
       i # k /\ returned[i].rlp = returned[k].rlp
  /\ Len(journal) = 1

\* C13: encoded_and_added never removes or alters a journal entry, and
\* leaves the journal as it was when the node's serialization is at most 31
\* bytes; over the calls of a commit cycle the entries only grow
C13_JournalAppendOnly ==
  [][/\ Len(journal') >= Len(journal)
     /\ \A i \in 1..Len(journal) : journal'[i] = journal[i]
     /\ Len(encoded(node')) <= 31 => journal' = journal]_vars

C13_Witness ==
  /\ op = "encoded_and_added"
  /\ Len(returned) = 2
  /\ Len(returned[1].rlp) > 31
  /\ Len(returned[2].rlp) <= 31
  /\ returned[2].out = returned[2].rlp
  /\ Len(journal) = 1
  /\ journal[1].rlp = returned[1].rlp

(***************************************************************************)
(* Claims about the builtins, checked under SpecBuiltin.                   *)
(***************************************************************************)
\* ceil(s / 32)
Ceil32(s) == (s \div 32) + (IF s % 32 = 0 THEN 0 ELSE 1)

\* C8: cost(s) = base_cost + word_cost * ceil(s / 32) for every usize s,
\* those within 31 of the largest usize included
C8_CostIsLinear ==
  (op = "cost") =>
    /\ ~cost.panic
    /\ cost.v = builtin.base_cost + builtin.word_cost * Ceil32(size)

\* ecrecover was run and rejected its input: v is neither 27 nor 28, or
\* the signature is not valid, or recovery failed
EcrecoverRejected ==
  /\ op = "execute"
  /\ builtin.name = "ecrecover"
  /\ (~EcrecoverChecksPass(input) \/ ~recover.ok)

\* C9 as stated: on a rejected input ecrecover zeroes the first
\* min(32, output length) bytes of the output and leaves the bytes beyond
\* index 31 as supplied
C9_ZeroResultOnFailure ==
  EcrecoverRejected =>
    /\ Len(output) = Len(output0)
    /\ \A i \in 1..Min(32, Len(output)) : output[i] = 0
    /\ \A i \in 33..Len(output) : output[i] = output0[i]

\* C9 as amended: on a rejected input ecrecover writes no result: each of
\* the first min(32, output length) bytes keeps the value the caller
\* supplied, as does each byte beyond index 31
C9_ResultRegionKeptOnFailure ==
  EcrecoverRejected =>
    /\ Len(output) = Len(output0)
    /\ \A i \in 1..Min(32, Len(output)) : output[i] = output0[i]
    /\ \A i \in 33..Len(output) : output[i] = output0[i]

C9_Witness ==
  /\ EcrecoverRejected
  /\ SubSeq(CopyRaw(input), 33, 64) = Word(27)
  /\ SubSeq(CopyRaw(input), 65, 96) = Rep(255, 32)
  /\ Len(output0) = 34
  /\ output0[1] = 255
  /\ output[1] = 255

\* C10: on a rejected input every byte of the output buffer keeps the value
\* the caller supplied
C10_OutputUntouchedOnFailure == EcrecoverRejected => output = output0

C10_Witness ==
  /\ EcrecoverRejected
  /\ EcrecoverChecksPass(input)
  /\ ~recover.ok
  /\ output0 = Rep(255, 32)
  /\ output = Rep(255, 32)

\* identity or copy_to was run on an input of length n and an output of
\* length m
CopiedBytes ==
  \/ op = "execute" /\ builtin.name = "identity"
  \/ op = "copy_to"

\* C11: after identity or copy_to, output[i] = input[i] for i < min(n, m),
\* output[i] is as supplied for min(n, m) <= i < m, the input is as it was
\* and no index outside either buffer was used
C11_CopyPrefixOnly ==
  CopiedBytes =>
    /\ Len(output) = Len(output0)
    /\ \A i \in 1..Len(output0) :
         output[i] = (IF i <= Len(input) THEN input[i] ELSE output0[i])
    /\ inputAfter = input
    /\ ~oob

C11_Witness ==
  /\ op = "execute"
  /\ builtin.name = "identity"
  /\ input = <<0, 1, 2, 3>>
  /\ output0 = Rep(255, 8)
  /\ output = <<0, 1, 2, 3, 255, 255, 255, 255>>
  /\ ~oob

\* sha256 or ripemd160 was run
Digested == op = "execute" /\ builtin.name \in {"sha256", "ripemd160"}

\* the 32-byte result word: the sha256 digest, or twelve zero bytes and the
\* 20-byte ripemd160 digest
ResultWord ==
  IF builtin.name = "sha256" THEN Sha256(input)
  ELSE Rep(0, 12) \o Ripemd160(input)

\* C12: after sha256 or ripemd160 on an output of any length L, the first
\* min(L, 32) bytes are those of the 32-byte result word and every byte at
\* index 32 or higher is as supplied, in the branch for L >= 32 and in the
\* branch for L < 32 alike
C12_ResultWordPrefix ==
  Digested =>
    /\ Len(output) = Len(output0)
    /\ \A i \in 1..Len(output0) :
         output[i] = (IF i <= 32 THEN ResultWord[i] ELSE output0[i])

C12_Witness ==
  /\ Digested
  /\ builtin.name = "ripemd160"
  /\ Len(output0) = 34
  /\ SubSeq(output, 1, 12) = Rep(0, 12)
  /\ SubSeq(output, 13, 32) = Ripemd160(input)
  /\ output[33] = output0[33]
  /\ output[34] = output0[34]

\* the document holds "name" as a string, "linear" as an object, and in it
\* "word" and "base" as unsigned integers
JsonWellFormed(json) ==
  /\ JsonHas(json, "name") /\ json.v["name"].t = "String"
  /\ JsonHas(json, "linear") /\ json.v["linear"].t = "Object"
  /\ JsonHas(json.v["linear"], "word") /\ json.v["linear"].v["word"].t = "U64"
  /\ JsonHas(json.v["linear"], "base") /\ json.v["linear"].v["base"].t = "U64"

\* C14: construction fails as a value, never as a panic: from_named_linear
\* gives None for every name other than the four builtins; from_json gives
\* None whenever "name" is not a string, "linear" is not an object, or
\* "linear.word" or "linear.base" is not an unsigned integer, and in every
\* other case the builtin from_named_linear(name, base, word) gives
C14_ConstructionFailsAsValue ==
  /\ op = "from_named_linear" =>
       /\ ~panicked
       /\ request.s \notin {"identity", "ecrecover", "sha256", "ripemd160"}
            => builtin = NoBuiltin
  /\ op = "from_json" =>
       /\ ~panicked
       /\ ~JsonWellFormed(request) => builtin = NoBuiltin
       /\ JsonWellFormed(request) =>
            builtin = from_named_linear(request.v["name"].s,
                                        request.v["linear"].v["base"].n,
                                        request.v["linear"].v["word"].n)

====
